---- MODULE Spec2Model ----
(***************************************************************************)
(* HfCandidateSelectorToXiPi (PWGHF/TableProducer/candidateSelectorToXiPi) *)
(* as a state machine: init() books the histograms, process() walks the    *)
(* candidate table and, per candidate, applies the cuts, fills the QA      *)
(* histograms and appends one row to the HfSelToXiPi table.                *)
(* VertexerHFTask (Tasks/vertexerhf) is a second state machine on its own  *)
(* variables: process() pairs the tracks of a collision, hands each pair   *)
(* to the DCA fitter and writes the vertex candidates to SecVtx.           *)
(*                                                                         *)
(* Numbers.  The code compares doubles; the model uses integers in fixed   *)
(* units so that "exactly at the threshold" is a value of its own:         *)
(*   lengths, eta, cosPA, pT : units of 0.01   (0.6 -> 60, 0.97 -> 97)     *)
(*   invariant masses        : units of 1e-6 GeV (1.115683 -> 1115683)     *)
(***************************************************************************)
EXTENDS Integers, Sequences, FiniteSets, Bags, TLC

VARIABLES pc, cfg, candidates, idx, registry, hInvMassCharmBaryon, hfSelToXiPi

\* VertexerHFTask (Tasks/vertexerhf): the tracks of the collision, the place
\* in process(), its two iterators and its candidate loop, the calls made
\* to the DCA fitter, the two histograms and the SecVtx table
VARIABLES vtxPc, tracksOfCollision, it_0, it_1, nCand, ic, dfCalls,
          hindex_0_coll, hvtx_x_out, secvtx

selectorVars ==
    <<pc, cfg, candidates, idx, registry, hInvMassCharmBaryon, hfSelToXiPi>>

vertexerVars ==
    <<vtxPc, tracksOfCollision, it_0, it_1, nCand, ic, dfCalls,
      hindex_0_coll, hvtx_x_out, secvtx>>

vars == <<selectorVars, vertexerVars>>

\* ------------------------------------------------------------------------
\* Bounds of the model
\* ------------------------------------------------------------------------

\* longest candidate table of the sequence specification
MaxCandidates == 2

\* most tracks in the collision handed to VertexerHFTask
MaxTracks == 3

\* the non-default lower bound tried for the four impact-parameter minima
ImpactParMinTight == 2

\* ------------------------------------------------------------------------
\* Configurables (defaults of the struct), in model units
\* ------------------------------------------------------------------------
radiusCascMin == 60
radiusV0Min == 120
cosPAV0Min == 97
cosPACascMin == 97
dcaCascDauMax == 100
dcaV0DauMax == 100
dcaBachToPvMin == 4
dcaNegToPvMin == 6
dcaPosToPvMin == 6
v0MassWindow == 10000
cascadeMassWindow == 10000
invMassCharmBaryonMin == 2000000
invMassCharmBaryonMax == 3100000
etaTrackCharmBachMax == 80
etaTrackLFDauMax == 100
ptPiFromCascMin == 15
ptPiFromCharmBaryonMin == 20
impactParameterXYPiFromCharmBaryonMin == 0
impactParameterXYPiFromCharmBaryonMax == 1000
impactParameterZPiFromCharmBaryonMin == 0
impactParameterZPiFromCharmBaryonMax == 1000
impactParameterXYCascMin == 0
impactParameterXYCascMax == 1000
impactParameterZCascMin == 0
impactParameterZCascMax == 1000
dcaCharmBaryonDauMax == 200
nClustersItsInnBarrMin == 1

\* o2::constants::physics, read at the top of process()
massLambdaFromPDG == 1115683
massXiFromPDG == 1321710

\* enum PidInfoStored
PiFromLam == 0
PrFromLam == 1
PiFromCasc == 2
PiFromCharm == 3

\* TrackSelectorPID::Status, and the value the four verdicts start from
NotApplicable == 0
Rejected == 1
Conditional == 2
Accepted == 3
StatusUnset == -999

\* ------------------------------------------------------------------------
\* Arithmetic helpers
\* ------------------------------------------------------------------------

\* std::abs
Abs(x) == IF x < 0 THEN -x ELSE x

\* RecoDecay::sqrtSumOfSquares(x, y), rounded down to the model's unit.  Every
\* threshold m it is compared with is a whole number >= 0 of that unit, and
\* for those  floor(sqrt(s)) < m  <=>  sqrt(s) < m.
sqrtSumOfSquares(x, y) ==
    CHOOSE r \in (IF Abs(x) > Abs(y) THEN Abs(x) ELSE Abs(y))
                    ..(Abs(x) + Abs(y)) :
        /\ r * r <= x * x + y * y
        /\ (r + 1) * (r + 1) > x * x + y * y

\* ROOT's SETBIT(n, i):  n |= (1 << i)
SETBIT(n, i) == IF (n \div (2 ^ i)) % 2 = 1 THEN n ELSE n + 2 ^ i

\* ------------------------------------------------------------------------
\* The two track tables (inputs of process)
\* ------------------------------------------------------------------------

\* What the PID selectors answer for one track and one species, as the pair
\* <<statusTpc, statusTpcOrTof>>
PidAnswers ==
    <<  <<Accepted, Accepted>>,
        <<Rejected, Accepted>>,
        <<Rejected, Rejected>>,
        <<Conditional, NotApplicable>>  >>

LfTrackIds == 0..127
TrackIds == 0..191

\* TracksSelLf row: every combination of TPC quality, TPC/TOF presence and
\* the pion and proton selector answers occurs once; the four nSigma columns
\* carry values that name the column and the row (up to its quality, which the
\* nSigma values of a track say nothing about).
lfTracks ==
    [id \in LfTrackIds |->
        [ tpcQuality |-> (id % 2 = 1),
          hasTPC |-> ((id \div 2) % 2 = 1),
          hasTOF |-> ((id \div 4) % 2 = 1),
          statusTpcPi |-> PidAnswers[((id \div 8) % 4) + 1][1],
          statusTpcOrTofPi |-> PidAnswers[((id \div 8) % 4) + 1][2],
          statusTpcPr |-> PidAnswers[((id \div 32) % 4) + 1][1],
          statusTpcOrTofPr |-> PidAnswers[((id \div 32) % 4) + 1][2],
          itsQuality |-> TRUE,
          itsNClsInnerBarrel |-> 0,
          tpcNSigmaPi |-> 8 * (id \div 2),
          tpcNSigmaPr |-> 8 * (id \div 2) + 1,
          tofNSigmaPi |-> 8 * (id \div 2) + 2,
          tofNSigmaPr |-> 8 * (id \div 2) + 3 ] ]

\* TracksSel row: as above, plus ITS quality and the inner-barrel cluster
\* count (0, 1 or 2); the proton answers are those of the next pion class.
tracks ==
    [id \in TrackIds |->
        [ tpcQuality |-> (id % 2 = 1),
          hasTPC |-> ((id \div 2) % 2 = 1),
          hasTOF |-> ((id \div 4) % 2 = 1),
          statusTpcPi |-> PidAnswers[((id \div 8) % 4) + 1][1],
          statusTpcOrTofPi |-> PidAnswers[((id \div 8) % 4) + 1][2],
          statusTpcPr |-> PidAnswers[(((id \div 8) + 1) % 4) + 1][1],
          statusTpcOrTofPr |-> PidAnswers[(((id \div 8) + 1) % 4) + 1][2],
          itsQuality |-> ((id \div 32) % 2 = 1),
          itsNClsInnerBarrel |-> (id \div 64) % 3,
          tpcNSigmaPi |-> 8 * ((id \div 2) % 16) + 4,
          tpcNSigmaPr |-> 8 * ((id \div 2) % 16) + 5,
          tofNSigmaPi |-> 8 * ((id \div 2) % 16) + 6,
          tofNSigmaPr |-> 8 * ((id \div 2) % 16) + 7 ] ]

\* Table::rawIteratorAt
rawIteratorAt(table, id) == table[id]

\* isSelectedTrackTpcQuality(track, nClustersTpcMin, ...): the helper's answer
isSelectedTrackTpcQuality(track) == track.tpcQuality

\* isSelectedTrackItsQuality(track, nClustersItsMin, itsChi2PerClusterMax)
isSelectedTrackItsQuality(track) == track.itsQuality

\* selectorPion / selectorProton .statusTpc / .statusTpcOrTof
statusTpc(selector, track) ==
    IF selector = "Pr" THEN track.statusTpcPr ELSE track.statusTpcPi

statusTpcOrTof(selector, track) ==
    IF selector = "Pr" THEN track.statusTpcOrTofPr ELSE track.statusTpcOrTofPi

\* ------------------------------------------------------------------------
\* Configuration
\* ------------------------------------------------------------------------

DefaultConfig ==
    [ radiusCascMin |-> radiusCascMin,
      radiusV0Min |-> radiusV0Min,
      cosPAV0Min |-> cosPAV0Min,
      cosPACascMin |-> cosPACascMin,
      dcaCascDauMax |-> dcaCascDauMax,
      dcaV0DauMax |-> dcaV0DauMax,
      dcaBachToPvMin |-> dcaBachToPvMin,
      dcaNegToPvMin |-> dcaNegToPvMin,
      dcaPosToPvMin |-> dcaPosToPvMin,
      v0MassWindow |-> v0MassWindow,
      cascadeMassWindow |-> cascadeMassWindow,
      applyTrkSelLf |-> TRUE,
      invMassCharmBaryonMin |-> invMassCharmBaryonMin,
      invMassCharmBaryonMax |-> invMassCharmBaryonMax,
      etaTrackCharmBachMax |-> etaTrackCharmBachMax,
      etaTrackLFDauMax |-> etaTrackLFDauMax,
      ptPiFromCascMin |-> ptPiFromCascMin,
      ptPiFromCharmBaryonMin |-> ptPiFromCharmBaryonMin,
      impactParameterXYPiFromCharmBaryonMin |-> impactParameterXYPiFromCharmBaryonMin,
      impactParameterXYPiFromCharmBaryonMax |-> impactParameterXYPiFromCharmBaryonMax,
      impactParameterZPiFromCharmBaryonMin |-> impactParameterZPiFromCharmBaryonMin,
      impactParameterZPiFromCharmBaryonMax |-> impactParameterZPiFromCharmBaryonMax,
      impactParameterXYCascMin |-> impactParameterXYCascMin,
      impactParameterXYCascMax |-> impactParameterXYCascMax,
      impactParameterZCascMin |-> impactParameterZCascMin,
      impactParameterZCascMax |-> impactParameterZCascMax,
      dcaCharmBaryonDauMax |-> dcaCharmBaryonDauMax,
      usePidTpcOnly |-> FALSE,
      usePidTpcTofCombined |-> TRUE,
      nClustersItsInnBarrMin |-> nClustersItsInnBarrMin ]

\* The configurations tried: the defaults, with every setting of the three
\* switches, and with the impact-parameter minima at 0 or raised.
Configs ==
    { [DefaultConfig EXCEPT
          !.usePidTpcOnly = tpcOnly,
          !.usePidTpcTofCombined = combined,
          !.applyTrkSelLf = lf,
          !.impactParameterXYPiFromCharmBaryonMin = ipMin,
          !.impactParameterZPiFromCharmBaryonMin = ipMin,
          !.impactParameterXYCascMin = ipMin,
          !.impactParameterZCascMin = ipMin] :
        tpcOnly \in BOOLEAN, combined \in BOOLEAN, lf \in BOOLEAN,
        ipMin \in {0, ImpactParMinTight} }

\* ------------------------------------------------------------------------
\* The topological, kinematic and track-quality cuts of process(): each is
\* the condition of the code's "if" under which the candidate FAILS the cut
\* ------------------------------------------------------------------------

\* role resolution from signDecay
trackV0PosDau(candidate) == rawIteratorAt(lfTracks, candidate.posTrackId)
trackV0NegDau(candidate) == rawIteratorAt(lfTracks, candidate.negTrackId)
trackPiFromCasc(candidate) == rawIteratorAt(lfTracks, candidate.bachelorId)
trackPiFromCharm(candidate) ==
    rawIteratorAt(tracks, candidate.bachelorFromCharmBaryonId)

\* mutant: signDecay = 0 takes the branch of signDecay > 0
trackPiFromLamSignNotNegative(candidate) ==
    IF candidate.signDecay >= 0
    THEN trackV0PosDau(candidate)
    ELSE trackV0NegDau(candidate)

trackPiFromLam(candidate) ==
    IF candidate.signDecay > 0
    THEN trackV0PosDau(candidate)
    ELSE trackV0NegDau(candidate)

trackPrFromLam(candidate) ==
    IF candidate.signDecay > 0
    THEN trackV0NegDau(candidate)
    ELSE trackV0PosDau(candidate)

\* the fills of hSelSignDec
fillsSignDec(candidate) ==
    IF candidate.signDecay > 0 THEN {<<"hSelSignDec", 1>>}
    ELSE IF candidate.signDecay < 0 THEN {<<"hSelSignDec", 0>>}
    ELSE {}

failEtaPosV0Dau(candidate, conf) ==
    Abs(candidate.etaV0PosDau) > conf.etaTrackLFDauMax

failEtaNegV0Dau(candidate, conf) ==
    Abs(candidate.etaV0NegDau) > conf.etaTrackLFDauMax

failEtaPiFromCasc(candidate, conf) ==
    Abs(candidate.etaBachFromCasc) > conf.etaTrackLFDauMax

failEtaPiFromCharm(candidate, conf) ==
    Abs(candidate.etaBachFromCharmBaryon) > conf.etaTrackCharmBachMax

\* mutant: a cascade radius equal to the minimum fails
failRadCascExclusive(candidate, conf) ==
    sqrtSumOfSquares(candidate.xDecayVtxCascade, candidate.yDecayVtxCascade)
        <= conf.radiusCascMin

failRadCasc(candidate, conf) ==
    sqrtSumOfSquares(candidate.xDecayVtxCascade, candidate.yDecayVtxCascade)
        < conf.radiusCascMin

failRadV0(candidate, conf) ==
    sqrtSumOfSquares(candidate.xDecayVtxV0, candidate.yDecayVtxV0)
        < conf.radiusV0Min

failCosPACasc(candidate, conf) == candidate.cosPACasc < conf.cosPACascMin

failCosPAV0(candidate, conf) == candidate.cosPAV0 < conf.cosPAV0Min

failDCACascDau(candidate, conf) == candidate.dcaCascDau > conf.dcaCascDauMax

failDCAV0Dau(candidate, conf) == candidate.dcaV0Dau > conf.dcaV0DauMax

failDCACharmDau(candidate, conf) ==
    candidate.dcaCharmBaryonDau > conf.dcaCharmBaryonDauMax

failDcaXYToPvV0Daughters(candidate, conf) ==
    \/ Abs(candidate.dcaXYToPvV0Dau0) < conf.dcaPosToPvMin
    \/ Abs(candidate.dcaXYToPvV0Dau1) < conf.dcaNegToPvMin

failDcaXYToPvPiFromCasc(candidate, conf) ==
    Abs(candidate.dcaXYToPvCascDau) < conf.dcaBachToPvMin

failDCAXYPrimPi(candidate, conf) ==
    \/ Abs(candidate.impactParBachFromCharmBaryonXY)
            < conf.impactParameterXYPiFromCharmBaryonMin
    \/ Abs(candidate.impactParBachFromCharmBaryonXY)
            > conf.impactParameterXYPiFromCharmBaryonMax

failDCAZPrimPi(candidate, conf) ==
    \/ Abs(candidate.impactParBachFromCharmBaryonZ)
            < conf.impactParameterZPiFromCharmBaryonMin
    \/ Abs(candidate.impactParBachFromCharmBaryonZ)
            > conf.impactParameterZPiFromCharmBaryonMax

failDCAXYCasc(candidate, conf) ==
    \/ Abs(candidate.impactParCascXY) < conf.impactParameterXYCascMin
    \/ Abs(candidate.impactParCascXY) > conf.impactParameterXYCascMax

failDCAZCasc(candidate, conf) ==
    \/ Abs(candidate.impactParCascZ) < conf.impactParameterZCascMin
    \/ Abs(candidate.impactParCascZ) > conf.impactParameterZCascMax

failPtPiFromCasc(candidate, conf) ==
    Abs(sqrtSumOfSquares(candidate.pxBachFromCasc, candidate.pyBachFromCasc))
        < conf.ptPiFromCascMin

failPtPiFromCharm(candidate, conf) ==
    Abs(sqrtSumOfSquares(candidate.pxBachFromCharmBaryon,
                         candidate.pyBachFromCharmBaryon))
        < conf.ptPiFromCharmBaryonMin

failTPCQualityPiFromLam(candidate, conf) ==
    ~isSelectedTrackTpcQuality(trackPiFromLam(candidate))

failTPCQualityPrFromLam(candidate, conf) ==
    ~isSelectedTrackTpcQuality(trackPrFromLam(candidate))

failTPCQualityPiFromCasc(candidate, conf) ==
    ~isSelectedTrackTpcQuality(trackPiFromCasc(candidate))

failTPCQualityPiFromCharm(candidate, conf) ==
    ~isSelectedTrackTpcQuality(trackPiFromCharm(candidate))

failITSQualityPiFromCharm(candidate, conf) ==
    \/ ~isSelectedTrackItsQuality(trackPiFromCharm(candidate))
    \/ trackPiFromCharm(candidate).itsNClsInnerBarrel
            < conf.nClustersItsInnBarrMin

\* mutant: the light-flavour TPC-quality block is entered unconditionally
cutsTrkSelLfAlways(conf) ==
    << "hSelTPCQualityPiFromLam", "hSelTPCQualityPrFromLam",
       "hSelTPCQualityPiFromCasc" >>

\* the light-flavour TPC-quality block, entered only under applyTrkSelLf
cutsTrkSelLf(conf) ==
    IF conf.applyTrkSelLf
    THEN << "hSelTPCQualityPiFromLam", "hSelTPCQualityPrFromLam",
            "hSelTPCQualityPiFromCasc" >>
    ELSE << >>

\* the cuts in the order process() applies them, named by their histogram
cutsInOrder(conf) ==
    << "hSelEtaPosV0Dau", "hSelEtaNegV0Dau", "hSelEtaPiFromCasc",
       "hSelEtaPiFromCharm", "hSelRadCasc", "hSelRadV0", "hSelCosPACasc",
       "hSelCosPAV0", "hSelDCACascDau", "hSelDCAV0Dau", "hSelDCACharmDau",
       "hSelDcaXYToPvV0Daughters", "hSelDcaXYToPvPiFromCasc",
       "hSelDCAXYPrimPi", "hSelDCAZPrimPi", "hSelDCAXYCasc", "hSelDCAZCasc",
       "hSelPtPiFromCasc", "hSelPtPiFromCharm" >>
    \o cutsTrkSelLf(conf)
    \o << "hSelTPCQualityPiFromCharm", "hSelITSQualityPiFromCharm" >>

cutFails(h, candidate, conf) ==
    CASE h = "hSelEtaPosV0Dau" -> failEtaPosV0Dau(candidate, conf)
      [] h = "hSelEtaNegV0Dau" -> failEtaNegV0Dau(candidate, conf)
      [] h = "hSelEtaPiFromCasc" -> failEtaPiFromCasc(candidate, conf)
      [] h = "hSelEtaPiFromCharm" -> failEtaPiFromCharm(candidate, conf)
      [] h = "hSelRadCasc" -> failRadCasc(candidate, conf)
      [] h = "hSelRadV0" -> failRadV0(candidate, conf)
      [] h = "hSelCosPACasc" -> failCosPACasc(candidate, conf)
      [] h = "hSelCosPAV0" -> failCosPAV0(candidate, conf)
      [] h = "hSelDCACascDau" -> failDCACascDau(candidate, conf)
      [] h = "hSelDCAV0Dau" -> failDCAV0Dau(candidate, conf)
      [] h = "hSelDCACharmDau" -> failDCACharmDau(candidate, conf)
      [] h = "hSelDcaXYToPvV0Daughters" ->
            failDcaXYToPvV0Daughters(candidate, conf)
      [] h = "hSelDcaXYToPvPiFromCasc" ->
            failDcaXYToPvPiFromCasc(candidate, conf)
      [] h = "hSelDCAXYPrimPi" -> failDCAXYPrimPi(candidate, conf)
      [] h = "hSelDCAZPrimPi" -> failDCAZPrimPi(candidate, conf)
      [] h = "hSelDCAXYCasc" -> failDCAXYCasc(candidate, conf)
      [] h = "hSelDCAZCasc" -> failDCAZCasc(candidate, conf)
      [] h = "hSelPtPiFromCasc" -> failPtPiFromCasc(candidate, conf)
      [] h = "hSelPtPiFromCharm" -> failPtPiFromCharm(candidate, conf)
      [] h = "hSelTPCQualityPiFromLam" ->
            failTPCQualityPiFromLam(candidate, conf)
      [] h = "hSelTPCQualityPrFromLam" ->
            failTPCQualityPrFromLam(candidate, conf)
      [] h = "hSelTPCQualityPiFromCasc" ->
            failTPCQualityPiFromCasc(candidate, conf)
      [] h = "hSelTPCQualityPiFromCharm" ->
            failTPCQualityPiFromCharm(candidate, conf)
      [] h = "hSelITSQualityPiFromCharm" ->
            failITSQualityPiFromCharm(candidate, conf)

\* mutant: the first failing cut ends the evaluation of the candidate's cuts
RECURSIVE applyCutsStopAtFirstFail(_, _, _, _)
applyCutsStopAtFirstFail(cuts, candidate, conf, st) ==
    IF cuts = << >> THEN st
    ELSE LET h == Head(cuts)
         IN  IF cutFails(h, candidate, conf)
             THEN [ resultSelections |-> FALSE,
                    fills |-> st.fills \cup {<<h, 0>>} ]
             ELSE applyCutsStopAtFirstFail(Tail(cuts), candidate, conf,
                      [ resultSelections |-> st.resultSelections,
                        fills |-> st.fills \cup {<<h, 1>>} ])

\* The running flag and the fills after the cuts of `cuts`, in order: a
\* failing cut sets resultSelections to false and fills bin 0 of its
\* histogram, a passing one leaves the flag alone and fills bin 1.
RECURSIVE applyCuts(_, _, _, _)
applyCuts(cuts, candidate, conf, st) ==
    IF cuts = << >> THEN st
    ELSE LET h == Head(cuts)
             fails == cutFails(h, candidate, conf)
         IN  applyCuts(Tail(cuts), candidate, conf,
                 [ resultSelections |->
                       IF fails THEN FALSE ELSE st.resultSelections,
                   fills |-> st.fills \cup {<<h, IF fails THEN 0 ELSE 1>>} ])

\* process(), from "bool resultSelections = true" to the ITS-quality cut
selections(candidate, conf) ==
    applyCuts(cutsInOrder(conf), candidate, conf,
              [resultSelections |-> TRUE, fills |-> fillsSignDec(candidate)])

\* ------------------------------------------------------------------------
\* Track-level PID, detector presence, invariant-mass windows
\* ------------------------------------------------------------------------

\* mutant: in TPC-only mode the pion from the charm baryon is still judged
\* by the TPC-or-TOF status
statusPidMixedModes(candidate, conf) ==
    IF conf.usePidTpcOnly
    THEN [ PrFromLam |-> statusTpc("Pr", trackPrFromLam(candidate)),
           PiFromLam |-> statusTpc("Pi", trackPiFromLam(candidate)),
           PiFromCasc |-> statusTpc("Pi", trackPiFromCasc(candidate)),
           PiFromCharmBaryon |->
               statusTpcOrTof("Pi", trackPiFromCharm(candidate)) ]
    ELSE IF conf.usePidTpcTofCombined
    THEN [ PrFromLam |-> statusTpcOrTof("Pr", trackPrFromLam(candidate)),
           PiFromLam |-> statusTpcOrTof("Pi", trackPiFromLam(candidate)),
           PiFromCasc |-> statusTpcOrTof("Pi", trackPiFromCasc(candidate)),
           PiFromCharmBaryon |->
               statusTpcOrTof("Pi", trackPiFromCharm(candidate)) ]
    ELSE [ PrFromLam |-> StatusUnset, PiFromLam |-> StatusUnset,
           PiFromCasc |-> StatusUnset, PiFromCharmBaryon |-> StatusUnset ]

\* the four verdicts: -999 until one of the two modes assigns them
statusPid(candidate, conf) ==
    IF conf.usePidTpcOnly
    THEN [ PrFromLam |-> statusTpc("Pr", trackPrFromLam(candidate)),
           PiFromLam |-> statusTpc("Pi", trackPiFromLam(candidate)),
           PiFromCasc |-> statusTpc("Pi", trackPiFromCasc(candidate)),
           PiFromCharmBaryon |-> statusTpc("Pi", trackPiFromCharm(candidate)) ]
    ELSE IF conf.usePidTpcTofCombined
    THEN [ PrFromLam |-> statusTpcOrTof("Pr", trackPrFromLam(candidate)),
           PiFromLam |-> statusTpcOrTof("Pi", trackPiFromLam(candidate)),
           PiFromCasc |-> statusTpcOrTof("Pi", trackPiFromCasc(candidate)),
           PiFromCharmBaryon |->
               statusTpcOrTof("Pi", trackPiFromCharm(candidate)) ]
    ELSE [ PrFromLam |-> StatusUnset, PiFromLam |-> StatusUnset,
           PiFromCasc |-> StatusUnset, PiFromCharmBaryon |-> StatusUnset ]

\* the three nested PID flags, from the four verdicts s
statusPidLambda(s) == s.PrFromLam = Accepted /\ s.PiFromLam = Accepted

\* mutant: the cascade flag forgets the proton from the Lambda
statusPidCascadeNoProton(s) ==
    s.PiFromLam = Accepted /\ s.PiFromCasc = Accepted

statusPidCascade(s) ==
    s.PrFromLam = Accepted /\ s.PiFromLam = Accepted
        /\ s.PiFromCasc = Accepted

statusPidCharmBaryon(s) ==
    s.PrFromLam = Accepted /\ s.PiFromLam = Accepted
        /\ s.PiFromCasc = Accepted /\ s.PiFromCharmBaryon = Accepted

\* "if (track.hasX()) SETBIT(info, role)" for the four roles, in order
setIf(has, info, role) == IF has THEN SETBIT(info, role) ELSE info

\* mutant: the TPC bit of a track is recorded only if the TPC-only selector
\* has not rejected the track
infoTpcStoredUnlessRejected(candidate) ==
    setIf(trackPiFromCharm(candidate).hasTPC
              /\ statusTpc("Pi", trackPiFromCharm(candidate)) # Rejected,
      setIf(trackPiFromCasc(candidate).hasTPC
                /\ statusTpc("Pi", trackPiFromCasc(candidate)) # Rejected,
        setIf(trackPrFromLam(candidate).hasTPC
                  /\ statusTpc("Pr", trackPrFromLam(candidate)) # Rejected,
          setIf(trackPiFromLam(candidate).hasTPC
                    /\ statusTpc("Pi", trackPiFromLam(candidate)) # Rejected,
                0, PiFromLam),
          PrFromLam),
        PiFromCasc),
      PiFromCharm)

infoTpcStored(candidate) ==
    setIf(trackPiFromCharm(candidate).hasTPC,
      setIf(trackPiFromCasc(candidate).hasTPC,
        setIf(trackPrFromLam(candidate).hasTPC,
          setIf(trackPiFromLam(candidate).hasTPC, 0, PiFromLam),
          PrFromLam),
        PiFromCasc),
      PiFromCharm)

infoTofStored(candidate) ==
    setIf(trackPiFromCharm(candidate).hasTOF,
      setIf(trackPiFromCasc(candidate).hasTOF,
        setIf(trackPrFromLam(candidate).hasTOF,
          setIf(trackPiFromLam(candidate).hasTOF, 0, PiFromLam),
          PrFromLam),
        PiFromCasc),
      PiFromCharm)

\* mutant: a Lambda mass exactly one window away from the reference passes
statusInvMassLambdaInclusive(candidate, conf) ==
    Abs(candidate.invMassLambda - massLambdaFromPDG) <= conf.v0MassWindow

\* mutant: the Lambda mass is looked at for candidates passing the cuts only
statusInvMassLambdaIfSelected(candidate, conf) ==
    /\ selections(candidate, conf).resultSelections
    /\ Abs(candidate.invMassLambda - massLambdaFromPDG) < conf.v0MassWindow

statusInvMassLambda(candidate, conf) ==
    Abs(candidate.invMassLambda - massLambdaFromPDG) < conf.v0MassWindow

statusInvMassCascade(candidate, conf) ==
    Abs(candidate.invMassCascade - massXiFromPDG) < conf.cascadeMassWindow

\* mutant: a charm-baryon mass equal to the upper limit fails
statusInvMassCharmBaryonOpen(candidate, conf) ==
    /\ candidate.invMassCharmBaryon >= conf.invMassCharmBaryonMin
    /\ candidate.invMassCharmBaryon < conf.invMassCharmBaryonMax

statusInvMassCharmBaryon(candidate, conf) ==
    /\ candidate.invMassCharmBaryon >= conf.invMassCharmBaryonMin
    /\ candidate.invMassCharmBaryon <= conf.invMassCharmBaryonMax

\* the row handed to hfSelToXiPi(...), resultSelections being the flag the
\* cuts have left
row(candidate, conf, resultSelections) ==
    LET s == statusPid(candidate, conf)
    IN  [ statusPidLambda |-> statusPidLambda(s),
          statusPidCascade |-> statusPidCascade(s),
          statusPidCharmBaryon |-> statusPidCharmBaryon(s),
          statusInvMassLambda |-> statusInvMassLambda(candidate, conf),
          statusInvMassCascade |-> statusInvMassCascade(candidate, conf),
          statusInvMassCharmBaryon |->
              statusInvMassCharmBaryon(candidate, conf),
          resultSelections |-> resultSelections,
          infoTpcStored |-> infoTpcStored(candidate),
          infoTofStored |-> infoTofStored(candidate),
          tpcNSigmaPiFromCharmBaryon |->
              trackPiFromCharm(candidate).tpcNSigmaPi,
          tpcNSigmaPiFromCasc |-> trackPiFromCasc(candidate).tpcNSigmaPi,
          tpcNSigmaPiFromLambda |-> trackPiFromLam(candidate).tpcNSigmaPi,
          tpcNSigmaPrFromLambda |-> trackPrFromLam(candidate).tpcNSigmaPr,
          tofNSigmaPiFromCharmBaryon |->
              trackPiFromCharm(candidate).tofNSigmaPi,
          tofNSigmaPiFromCasc |-> trackPiFromCasc(candidate).tofNSigmaPi,
          tofNSigmaPiFromLambda |-> trackPiFromLam(candidate).tofNSigmaPi,
          tofNSigmaPrFromLambda |-> trackPrFromLam(candidate).tofNSigmaPr ]

\* "if (cond) registry.fill(HIST(h), x)": the fill made, as <<h, bin of x>>
fillIf(cond, h, bin) == IF cond THEN {<<h, bin>>} ELSE {}

\* mutant: the cascade PID entry of hStatusCheck is made whatever the cuts
\* say
fillsPidCascadeUngated(o) ==
    fillIf(o.statusPidLambda /\ o.resultSelections, "hStatusCheck", 0)
    \cup fillIf(o.statusPidCascade, "hStatusCheck", 1)
    \cup fillIf(o.statusPidCharmBaryon /\ o.resultSelections,
                "hStatusCheck", 2)

\* fills of hStatusCheck under the three PID tests (fill values 0.5, 1.5,
\* 2.5), o being the flags of the candidate
fillsPid(o) ==
    fillIf(o.statusPidLambda /\ o.resultSelections, "hStatusCheck", 0)
    \cup fillIf(o.statusPidCascade /\ o.resultSelections, "hStatusCheck", 1)
    \cup fillIf(o.statusPidCharmBaryon /\ o.resultSelections,
                "hStatusCheck", 2)

\* mutant: the mass tallies are accumulated for candidates passing the cuts
\* only
fillsInvMassIfSelected(o) ==
    LET pid == o.statusPidLambda /\ o.statusPidCascade
                    /\ o.statusPidCharmBaryon
    IN  IF ~o.resultSelections THEN {}
        ELSE
        (IF o.statusInvMassLambda
         THEN {<<"hSelMassLam", 1>>} \cup fillIf(pid, "hStatusCheck", 3)
         ELSE {<<"hSelMassLam", 0>>})
        \cup
        (IF o.statusInvMassCascade
         THEN {<<"hSelMassCasc", 1>>}
              \cup fillIf(pid /\ o.statusInvMassLambda, "hStatusCheck", 4)
         ELSE {<<"hSelMassCasc", 0>>})
        \cup
        (IF o.statusInvMassCharmBaryon
         THEN {<<"hSelMassCharmBaryon", 1>>}
              \cup fillIf(pid /\ o.statusInvMassLambda
                              /\ o.statusInvMassCascade, "hStatusCheck", 5)
         ELSE {<<"hSelMassCharmBaryon", 0>>})

\* fills of the three invariant-mass tests: hSelMass<X> always, hStatusCheck
\* (fill values 3.5, 4.5, 5.5) inside the passing branch only
fillsInvMass(o) ==
    LET pid == o.statusPidLambda /\ o.statusPidCascade
                    /\ o.statusPidCharmBaryon
    IN  (IF o.statusInvMassLambda
         THEN {<<"hSelMassLam", 1>>}
              \cup fillIf(pid /\ o.resultSelections, "hStatusCheck", 3)
         ELSE {<<"hSelMassLam", 0>>})
        \cup
        (IF o.statusInvMassCascade
         THEN {<<"hSelMassCasc", 1>>}
              \cup fillIf(pid /\ o.statusInvMassLambda /\ o.resultSelections,
                          "hStatusCheck", 4)
         ELSE {<<"hSelMassCasc", 0>>})
        \cup
        (IF o.statusInvMassCharmBaryon
         THEN {<<"hSelMassCharmBaryon", 1>>}
              \cup fillIf(pid /\ o.statusInvMassLambda
                              /\ o.statusInvMassCascade /\ o.resultSelections,
                          "hStatusCheck", 5)
         ELSE {<<"hSelMassCharmBaryon", 0>>})

\* fills of hSelPID (fill values 0.5 .. 11.5), made under resultSelections
fillsSelPID(o) ==
    IF o.resultSelections
    THEN fillIf(~o.statusPidLambda, "hSelPID", 0)
         \cup fillIf(o.statusPidLambda, "hSelPID", 1)
         \cup fillIf(~o.statusPidCascade, "hSelPID", 2)
         \cup fillIf(o.statusPidCascade, "hSelPID", 3)
         \cup fillIf(~o.statusPidCharmBaryon, "hSelPID", 4)
         \cup fillIf(o.statusPidCharmBaryon, "hSelPID", 5)
         \cup fillIf(~o.statusInvMassLambda, "hSelPID", 6)
         \cup fillIf(o.statusInvMassLambda, "hSelPID", 7)
         \cup fillIf(~o.statusInvMassCascade, "hSelPID", 8)
         \cup fillIf(o.statusInvMassCascade, "hSelPID", 9)
         \cup fillIf(~o.statusInvMassCharmBaryon, "hSelPID", 10)
         \cup fillIf(o.statusInvMassCharmBaryon, "hSelPID", 11)
    ELSE {}

\* mutant: the Lambda mass window is not among the conditions
passesAllButLambdaMass(o) ==
    o.statusPidLambda /\ o.statusPidCascade /\ o.statusPidCharmBaryon
    /\ o.statusInvMassCascade
    /\ o.statusInvMassCharmBaryon /\ o.resultSelections

\* the condition under which hInvMassCharmBaryon is filled
passesAll(o) ==
    o.statusPidLambda /\ o.statusPidCascade /\ o.statusPidCharmBaryon
    /\ o.statusInvMassLambda /\ o.statusInvMassCascade
    /\ o.statusInvMassCharmBaryon /\ o.resultSelections

\* one complete iteration of the candidate loop: the row it writes and the
\* registry fills it makes
iteration(candidate, conf) ==
    LET sel == selections(candidate, conf)
        o == row(candidate, conf, sel.resultSelections)
    IN  [ row |-> o,
          fills |-> sel.fills \cup fillsPid(o) \cup fillsInvMass(o)
                        \cup fillsSelPID(o) ]

\* ------------------------------------------------------------------------
\* Histogram registry
\* ------------------------------------------------------------------------

\* histograms on the 12-bin axis {12, 0., 12.}
hists12 == {"hSelPID", "hStatusCheck"}

\* histograms on axisSel {2, -0.5, 1.5}
histsSel ==
    { "hSelSignDec", "hSelEtaPosV0Dau", "hSelEtaNegV0Dau", "hSelEtaPiFromCasc",
      "hSelEtaPiFromCharm", "hSelRadCasc", "hSelRadV0", "hSelCosPACasc",
      "hSelCosPAV0", "hSelDCACascDau", "hSelDCAV0Dau", "hSelDCACharmDau",
      "hSelDCAXYPrimPi", "hSelDCAZPrimPi", "hSelDCAXYCasc", "hSelDCAZCasc",
      "hSelPtPiFromCasc", "hSelPtPiFromCharm", "hSelTPCQualityPiFromCharm",
      "hSelTPCQualityPiFromLam", "hSelTPCQualityPrFromLam",
      "hSelTPCQualityPiFromCasc", "hSelITSQualityPiFromCharm", "hSelMassLam",
      "hSelMassCasc", "hSelMassCharmBaryon", "hSelDcaXYToPvV0Daughters",
      "hSelDcaXYToPvPiFromCasc" }

\* the registry as init() leaves it: every histogram booked, every bin empty
bookedRegistry ==
    [h \in hists12 \cup histsSel |->
        IF h \in hists12 THEN [b \in 0..11 |-> 0] ELSE [b \in 0..1 |-> 0]]

\* mutant: a fill sets the bin to one entry instead of adding one
fillSetsBin(reg, fills) ==
    [h \in DOMAIN reg |->
        [b \in DOMAIN reg[h] |->
            IF <<h, b>> \in fills THEN 1 ELSE reg[h][b]]]

\* registry.fill for a set of <<histogram, bin>> fills, one entry each
fill(reg, fills) ==
    [h \in DOMAIN reg |->
        [b \in DOMAIN reg[h] |->
            reg[h][b] + (IF <<h, b>> \in fills THEN 1 ELSE 0)]]

\* ------------------------------------------------------------------------
\* Input candidates
\* ------------------------------------------------------------------------

\* rows of the track tables with TPC quality, TPC and TOF present, and the
\* pion/proton selector answers of the given classes (indices of PidAnswers,
\* from 0); the TracksSel row also has ITS quality and one inner-barrel hit
lfTrackId(piClass, prClass) == 7 + 8 * piClass + 32 * prClass
trackId(piClass) == 7 + 8 * piClass + 32 + 64

\* a candidate that passes every cut, PID test and mass window under every
\* valid configuration, sitting exactly on the radius and pT thresholds
BaseCandidate ==
    [ signDecay |-> -1,
      posTrackId |-> lfTrackId(0, 0),
      negTrackId |-> lfTrackId(0, 0),
      bachelorId |-> lfTrackId(0, 0),
      bachelorFromCharmBaryonId |-> trackId(0),
      etaV0PosDau |-> 0,
      etaV0NegDau |-> 0,
      etaBachFromCasc |-> 0,
      etaBachFromCharmBaryon |-> 0,
      xDecayVtxCascade |-> 36,
      yDecayVtxCascade |-> 48,
      xDecayVtxV0 |-> 72,
      yDecayVtxV0 |-> 96,
      cosPACasc |-> cosPACascMin + 2,
      cosPAV0 |-> cosPAV0Min + 2,
      dcaCascDau |-> 50,
      dcaV0Dau |-> 50,
      dcaCharmBaryonDau |-> 50,
      dcaXYToPvV0Dau0 |-> 10,
      dcaXYToPvV0Dau1 |-> 10,
      dcaXYToPvCascDau |-> 10,
      impactParBachFromCharmBaryonXY |-> 50,
      impactParBachFromCharmBaryonZ |-> 50,
      impactParCascXY |-> 50,
      impactParCascZ |-> 50,
      pxBachFromCasc |-> 9,
      pyBachFromCasc |-> 12,
      pxBachFromCharmBaryon |-> 12,
      pyBachFromCharmBaryon |-> 16,
      invMassLambda |-> massLambdaFromPDG,
      invMassCascade |-> massXiFromPDG,
      invMassCharmBaryon |-> 2500000 ]

\* values just below, at and just above +-t
Around(t) == {t - 1, t, t + 1, -(t - 1), -t, -(t + 1)}

\* the other values tried for each numeric column: around every threshold
\* the column is compared with
ColumnValues ==
    [ etaV0PosDau |-> Around(etaTrackLFDauMax),
      etaV0NegDau |-> Around(etaTrackLFDauMax),
      etaBachFromCasc |-> Around(etaTrackLFDauMax),
      etaBachFromCharmBaryon |-> Around(etaTrackCharmBachMax),
      xDecayVtxCascade |-> {35, 37, -36, -35},
      yDecayVtxCascade |-> {47, 49, -48, -47},
      xDecayVtxV0 |-> {71, 73, -72, -71},
      yDecayVtxV0 |-> {95, 97, -96, -95},
      cosPACasc |-> {cosPACascMin - 1, cosPACascMin, cosPACascMin + 1},
      cosPAV0 |-> {cosPAV0Min - 1, cosPAV0Min, cosPAV0Min + 1},
      dcaCascDau |-> {dcaCascDauMax - 1, dcaCascDauMax, dcaCascDauMax + 1},
      dcaV0Dau |-> {dcaV0DauMax - 1, dcaV0DauMax, dcaV0DauMax + 1},
      dcaCharmBaryonDau |->
          {dcaCharmBaryonDauMax - 1, dcaCharmBaryonDauMax,
           dcaCharmBaryonDauMax + 1},
      dcaXYToPvV0Dau0 |-> Around(dcaPosToPvMin),
      dcaXYToPvV0Dau1 |-> Around(dcaNegToPvMin),
      dcaXYToPvCascDau |-> Around(dcaBachToPvMin),
      impactParBachFromCharmBaryonXY |->
          {0} \cup Around(ImpactParMinTight)
              \cup Around(impactParameterXYPiFromCharmBaryonMax),
      impactParBachFromCharmBaryonZ |->
          {0} \cup Around(ImpactParMinTight)
              \cup Around(impactParameterZPiFromCharmBaryonMax),
      impactParCascXY |->
          {0} \cup Around(ImpactParMinTight)
              \cup Around(impactParameterXYCascMax),
      impactParCascZ |->
          {0} \cup Around(ImpactParMinTight)
              \cup Around(impactParameterZCascMax),
      pxBachFromCasc |-> {8, 10, -9, -8},
      pyBachFromCasc |-> {11, 13, -12, -11},
      pxBachFromCharmBaryon |-> {11, 13, -12, -11},
      pyBachFromCharmBaryon |-> {15, 17, -16, -15},
      invMassLambda |->
          {massLambdaFromPDG + d : d \in Around(v0MassWindow)},
      invMassCascade |->
          {massXiFromPDG + d : d \in Around(cascadeMassWindow)},
      invMassCharmBaryon |->
          { invMassCharmBaryonMin - 1, invMassCharmBaryonMin,
            invMassCharmBaryonMin + 1, invMassCharmBaryonMax - 1,
            invMassCharmBaryonMax, invMassCharmBaryonMax + 1 } ]

\* BaseCandidate with one numeric column changed
ColumnCandidates ==
    UNION { {[BaseCandidate EXCEPT ![f] = v] : v \in ColumnValues[f]} :
            f \in DOMAIN ColumnValues }

\* BaseCandidate with any decay sign and one track index pointing anywhere
\* in its table
TrackCandidates ==
    UNION { {[BaseCandidate EXCEPT !.signDecay = s, !.posTrackId = t] :
                t \in LfTrackIds}
            \cup {[BaseCandidate EXCEPT !.signDecay = s, !.negTrackId = t] :
                t \in LfTrackIds}
            \cup {[BaseCandidate EXCEPT !.signDecay = s, !.bachelorId = t] :
                t \in LfTrackIds}
            \cup {[BaseCandidate EXCEPT !.signDecay = s,
                                        !.bachelorFromCharmBaryonId = t] :
                t \in TrackIds} :
            s \in {-1, 0, 1} }

\* every combination of accepted / rejected answers for the four tracks,
\* both selectors on the two V0 daughters, with any decay sign
PidCandidates ==
    { [BaseCandidate EXCEPT
          !.signDecay = s,
          !.posTrackId = lfTrackId(2 * a[1], 2 * a[2]),
          !.negTrackId = lfTrackId(2 * a[3], 2 * a[4]),
          !.bachelorId = lfTrackId(2 * a[5], 0),
          !.bachelorFromCharmBaryonId = trackId(2 * a[6])] :
        s \in {-1, 0, 1}, a \in [1..6 -> {0, 1}] }

\* every combination of: one cut failing or not, the PID level reached,
\* and each of the three masses inside or outside its window
GateCandidates ==
    { [BaseCandidate EXCEPT
          !.xDecayVtxCascade = IF g[1] = 1 THEN 35 ELSE 36,
          !.posTrackId = lfTrackId(0, IF p = 0 THEN 2 ELSE 0),
          !.bachelorId = lfTrackId(IF p = 1 THEN 2 ELSE 0, 0),
          !.bachelorFromCharmBaryonId = trackId(IF p = 2 THEN 2 ELSE 0),
          !.invMassLambda = massLambdaFromPDG + g[2] * v0MassWindow,
          !.invMassCascade = massXiFromPDG - g[3] * cascadeMassWindow,
          !.invMassCharmBaryon = invMassCharmBaryonMax + g[4]] :
        g \in [1..4 -> {0, 1}], p \in 0..3 }

\* the candidates of the one-candidate specification
OneCandidates ==
    ColumnCandidates \cup TrackCandidates \cup PidCandidates
        \cup GateCandidates

\* the candidates the tables of the sequence specification are made of
SeqCandidates ==
    { BaseCandidate,
      [BaseCandidate EXCEPT !.xDecayVtxCascade = 35],
      [BaseCandidate EXCEPT !.signDecay = 1, !.posTrackId = lfTrackId(0, 2),
                            !.negTrackId = lfTrackId(2, 0)],
      [BaseCandidate EXCEPT !.signDecay = 0, !.bachelorId = 0],
      [BaseCandidate EXCEPT !.bachelorFromCharmBaryonId = trackId(1)],
      [BaseCandidate EXCEPT !.invMassLambda = massLambdaFromPDG + v0MassWindow],
      [BaseCandidate EXCEPT !.invMassCascade =
                                massXiFromPDG - cascadeMassWindow],
      [BaseCandidate EXCEPT !.bachelorId = lfTrackId(2, 0)],
      [BaseCandidate EXCEPT !.invMassCharmBaryon = invMassCharmBaryonMin - 1,
                            !.etaBachFromCharmBaryon = -81] }

\* ------------------------------------------------------------------------
\* VertexerHFTask
\* ------------------------------------------------------------------------

\* what DCAFitter::process may return for a pair of tracks: the number of
\* vertex candidates it has found
NCandReturned == {0, 1, 2}

\* the global index of the first track of the collision
FirstIndices == {0, 4}

\* the tracks of one collision: n consecutive rows of the track table, from
\* global index first on, each with its own y
TracksOfCollision(first, n) ==
    [k \in 1..n |-> [index |-> first + k - 1, y |-> 10 * (first + k) + 1]]

\* tracks.end(), as a position in the table
end == Len(tracksOfCollision) + 1

\* the task not run: the state it has in the runs of the selector
VertexerOff ==
    /\ vtxPc = "off"
    /\ tracksOfCollision = << >>
    /\ it_0 = 1
    /\ it_1 = 1
    /\ nCand = 0
    /\ ic = 0
    /\ dfCalls = << >>
    /\ hindex_0_coll = EmptyBag
    /\ hvtx_x_out = EmptyBag
    /\ secvtx = << >>

\* process() entered with the tracks of a collision: it_0 = tracks.begin()
VertexerEntered ==
    /\ vtxPc = "track_0"
    /\ \E first \in FirstIndices, n \in 0..MaxTracks :
          tracksOfCollision = TracksOfCollision(first, n)
    /\ it_0 = 1
    /\ it_1 = 1
    /\ nCand = 0
    /\ ic = 0
    /\ dfCalls = << >>
    /\ hindex_0_coll = EmptyBag
    /\ hvtx_x_out = EmptyBag
    /\ secvtx = << >>

\* mutant: the inner loop starts at it_0 itself
vertexerTrack0FromItself ==
    /\ vtxPc = "track_0"
    /\ it_0 # end
    /\ hindex_0_coll' =
          hindex_0_coll (+) SetToBag({tracksOfCollision[it_0].index})
    /\ it_1' = it_0
    /\ vtxPc' = "track_1"
    /\ UNCHANGED <<tracksOfCollision, it_0, nCand, ic, dfCalls, hvtx_x_out,
                   secvtx>>
    /\ UNCHANGED selectorVars

\* outer loop, it_0 != tracks.end(): the body up to the head of the inner
\* loop, it_1 = it_0 + 1
vertexerTrack0 ==
    /\ vtxPc = "track_0"
    /\ it_0 # end
    /\ hindex_0_coll' =
          hindex_0_coll (+) SetToBag({tracksOfCollision[it_0].index})
    /\ it_1' = it_0 + 1
    /\ vtxPc' = "track_1"
    /\ UNCHANGED <<tracksOfCollision, it_0, nCand, ic, dfCalls, hvtx_x_out,
                   secvtx>>
    /\ UNCHANGED selectorVars

\* outer loop, it_0 == tracks.end(): process() returns
vertexerEnd ==
    /\ vtxPc = "track_0"
    /\ it_0 = end
    /\ vtxPc' = "done"
    /\ UNCHANGED <<tracksOfCollision, it_0, it_1, nCand, ic, dfCalls,
                   hindex_0_coll, hvtx_x_out, secvtx>>
    /\ UNCHANGED selectorVars

\* inner loop, it_1 != tracks.end(): the pair is handed to the fitter,
\* which returns its number of vertex candidates
vertexerTrack1 ==
    /\ vtxPc = "track_1"
    /\ it_1 # end
    /\ \E n \in NCandReturned :
          /\ nCand' = n
          /\ dfCalls' = Append(dfCalls,
                               [it_0 |-> it_0, it_1 |-> it_1, nCand |-> n])
    /\ ic' = 0
    /\ vtxPc' = "vertex"
    /\ UNCHANGED <<tracksOfCollision, it_0, it_1, hindex_0_coll, hvtx_x_out,
                   secvtx>>
    /\ UNCHANGED selectorVars

\* inner loop, it_1 == tracks.end(): ++it_0
vertexerTrack1End ==
    /\ vtxPc = "track_1"
    /\ it_1 = end
    /\ it_0' = it_0 + 1
    /\ it_1' = 1
    /\ vtxPc' = "track_0"
    /\ UNCHANGED <<tracksOfCollision, nCand, ic, dfCalls, hindex_0_coll,
                   hvtx_x_out, secvtx>>
    /\ UNCHANGED selectorVars

\* candidate loop, ic < nCand: the vertex candidate is histogrammed and
\* written to SecVtx (hvtx_y_out and hvtx_z_out are filled as hvtx_x_out is);
\* the vertex is named by the fit and the candidate number it comes from
vertexerVertex ==
    /\ vtxPc = "vertex"
    /\ ic < nCand
    /\ LET track_0 == tracksOfCollision[it_0]
           track_1 == tracksOfCollision[it_1]
           vtx == [x |-> <<"x", it_0, it_1, ic>>, y |-> <<"y", it_0, it_1, ic>>]
       IN  /\ hvtx_x_out' = hvtx_x_out (+) SetToBag({vtx.x})
           /\ secvtx' = Append(secvtx,
                 [ posx |-> vtx.x, posy |-> vtx.y,
                   index0 |-> track_0.index, index1 |-> track_1.index,
                   index2 |-> -1,
                   tracky0 |-> track_0.y, tracky1 |-> track_1.y,
                   tracky2 |-> -1 ])
    /\ ic' = ic + 1
    /\ UNCHANGED <<vtxPc, tracksOfCollision, it_0, it_1, nCand, dfCalls,
                   hindex_0_coll>>
    /\ UNCHANGED selectorVars

\* candidate loop, ic >= nCand: ++it_1
vertexerVertexEnd ==
    /\ vtxPc = "vertex"
    /\ ic >= nCand
    /\ it_1' = it_1 + 1
    /\ nCand' = 0
    /\ ic' = 0
    /\ vtxPc' = "track_1"
    /\ UNCHANGED <<tracksOfCollision, it_0, dfCalls, hindex_0_coll,
                   hvtx_x_out, secvtx>>
    /\ UNCHANGED selectorVars

NextVertexer ==
    \/ vertexerTrack0 \/ vertexerEnd \/ vertexerTrack1 \/ vertexerTrack1End
    \/ vertexerVertex \/ vertexerVertexEnd

\* ------------------------------------------------------------------------
\* The task
\* ------------------------------------------------------------------------

\* the task as constructed, before init(): nothing booked, nothing produced
Constructed ==
    /\ pc = "constructed"
    /\ idx = 1
    /\ registry = << >>
    /\ hInvMassCharmBaryon = EmptyBag
    /\ hfSelToXiPi = << >>

Init ==
    /\ Constructed
    /\ VertexerOff
    /\ cfg \in Configs
    /\ candidates \in
          UNION {[1..n -> SeqCandidates] : n \in 0..MaxCandidates}

InitOne ==
    /\ Constructed
    /\ VertexerOff
    /\ cfg \in Configs
    /\ candidates \in {<<c>> : c \in OneCandidates}

\* one candidate, drawn from the families whose cuts, PID answers and masses
\* vary (the table rows are then varied by the properties that compare two
\* candidates)
InitFrame ==
    /\ Constructed
    /\ VertexerOff
    /\ cfg \in Configs
    /\ candidates \in
          {<<c>> : c \in {BaseCandidate} \cup ColumnCandidates
                            \cup PidCandidates \cup GateCandidates}

\* init(): books the histograms; reads the PID ranges into the selectors
init ==
    /\ pc = "constructed"
    /\ pc' = "process"
    /\ registry' = bookedRegistry
    /\ UNCHANGED vertexerVars
    /\ UNCHANGED <<cfg, candidates, idx, hInvMassCharmBaryon, hfSelToXiPi>>

\* the PID configuration process() accepts
pidConfigOk(conf) == conf.usePidTpcOnly # conf.usePidTpcTofCombined

\* mutant: a candidate failing the cuts is skipped without a row
processCandidateSkipsRejected ==
    /\ pc = "process"
    /\ idx <= Len(candidates)
    /\ pidConfigOk(cfg)
    /\ LET it == iteration(candidates[idx], cfg)
       IN  /\ registry' = fill(registry, it.fills)
           /\ hfSelToXiPi' =
                 IF it.row.resultSelections
                 THEN Append(hfSelToXiPi, it.row)
                 ELSE hfSelToXiPi
           /\ hInvMassCharmBaryon' =
                 IF passesAll(it.row)
                 THEN hInvMassCharmBaryon
                        (+) SetToBag({candidates[idx].invMassCharmBaryon})
                 ELSE hInvMassCharmBaryon
    /\ idx' = idx + 1
    /\ UNCHANGED vertexerVars
    /\ UNCHANGED <<pc, cfg, candidates>>

\* mutant: resultSelections is not reset at the top of the loop body, so a
\* candidate after one that failed the cuts is written as failing too
processCandidateFlagNotReset ==
    /\ pc = "process"
    /\ idx <= Len(candidates)
    /\ pidConfigOk(cfg)
    /\ LET it == iteration(candidates[idx], cfg)
           before == idx = 1 \/ hfSelToXiPi[idx - 1].resultSelections
           o == [it.row EXCEPT !.resultSelections = @ /\ before]
       IN  /\ registry' = fill(registry, it.fills)
           /\ hfSelToXiPi' = Append(hfSelToXiPi, o)
           /\ hInvMassCharmBaryon' =
                 IF passesAll(o)
                 THEN hInvMassCharmBaryon
                        (+) SetToBag({candidates[idx].invMassCharmBaryon})
                 ELSE hInvMassCharmBaryon
    /\ idx' = idx + 1
    /\ UNCHANGED vertexerVars
    /\ UNCHANGED <<pc, cfg, candidates>>

\* one iteration of the candidate loop, to its end
processCandidate ==
    /\ pc = "process"
    /\ idx <= Len(candidates)
    /\ pidConfigOk(cfg)
    /\ LET it == iteration(candidates[idx], cfg)
       IN  /\ registry' = fill(registry, it.fills)
           /\ hfSelToXiPi' = Append(hfSelToXiPi, it.row)
           /\ hInvMassCharmBaryon' =
                 IF passesAll(it.row)
                 THEN hInvMassCharmBaryon
                        (+) SetToBag({candidates[idx].invMassCharmBaryon})
                 ELSE hInvMassCharmBaryon
    /\ idx' = idx + 1
    /\ UNCHANGED vertexerVars
    /\ UNCHANGED <<pc, cfg, candidates>>

\* one iteration that runs into LOGF(fatal, ...): the cuts above it have
\* been applied and their histograms filled, nothing after it happens
processFatal ==
    /\ pc = "process"
    /\ idx <= Len(candidates)
    /\ ~pidConfigOk(cfg)
    /\ registry' = fill(registry, selections(candidates[idx], cfg).fills)
    /\ pc' = "fatal"
    /\ UNCHANGED vertexerVars
    /\ UNCHANGED <<cfg, candidates, idx, hInvMassCharmBaryon, hfSelToXiPi>>

\* the loop ends at the end of the candidate table
processEnd ==
    /\ pc = "process"
    /\ idx > Len(candidates)
    /\ pc' = "done"
    /\ UNCHANGED vertexerVars
    /\ UNCHANGED <<cfg, candidates, idx, registry, hInvMassCharmBaryon,
                   hfSelToXiPi>>

Next == init \/ processCandidate \/ processFatal \/ processEnd

Spec == Init /\ [][Next]_vars

SpecOne == InitOne /\ [][Next]_vars

SpecFrame == InitFrame /\ [][Next]_vars

\* VertexerHFTask alone, on the tracks of one collision; process() is
\* straight-line code in one thread, so it goes on as long as it has a
\* next step
InitVertexer ==
    /\ Constructed
    /\ cfg = DefaultConfig
    /\ candidates = << >>
    /\ VertexerEntered

SpecVertexer == InitVertexer /\ [][NextVertexer]_vars /\ WF_vars(NextVertexer)

\* ------------------------------------------------------------------------
\* Properties
\* ------------------------------------------------------------------------

\* the PID configuration is invalid: both modes selected, or neither
PidConfigInvalid == cfg.usePidTpcOnly = cfg.usePidTpcTofCombined

\* no bin of any booked histogram has an entry
NothingFilled ==
    /\ \A h \in DOMAIN registry : \A b \in DOMAIN registry[h] :
            registry[h][b] = 0
    /\ hInvMassCharmBaryon = EmptyBag

\* C1: under an invalid PID configuration (usePidTpcOnly and
\* usePidTpcTofCombined both true or both false) the task aborts before any
\* candidate is processed: whatever the number of candidates, zero included,
\* process() never returns normally, and when the run has stopped it has
\* stopped in the fatal state with no histogram entry and no output row.
C1_AbortBeforeAnyCandidate ==
    (PidConfigInvalid /\ pc \in {"fatal", "done"}) =>
        /\ pc = "fatal"
        /\ NothingFilled
        /\ hfSelToXiPi = << >>

\* C2: in every row of the output table statusPidCharmBaryon implies
\* statusPidCascade, and statusPidCascade implies statusPidLambda.
C2_PidFlagsNested ==
    \A i \in DOMAIN hfSelToXiPi :
        /\ hfSelToXiPi[i].statusPidCharmBaryon
                => hfSelToXiPi[i].statusPidCascade
        /\ hfSelToXiPi[i].statusPidCascade => hfSelToXiPi[i].statusPidLambda

\* C2 witness: a row was written for a candidate whose Lambda and cascade
\* daughters are accepted and whose charm-baryon bachelor is not
C2_Witness ==
    \E i \in DOMAIN hfSelToXiPi :
        /\ hfSelToXiPi[i].statusPidLambda
        /\ hfSelToXiPi[i].statusPidCascade
        /\ ~hfSelToXiPi[i].statusPidCharmBaryon

\* the conjunction of the cuts, written out on the candidate's columns and
\* the rows of its four tracks
AllCutsHold(c, conf) ==
    /\ Abs(c.etaV0PosDau) <= conf.etaTrackLFDauMax
    /\ Abs(c.etaV0NegDau) <= conf.etaTrackLFDauMax
    /\ Abs(c.etaBachFromCasc) <= conf.etaTrackLFDauMax
    /\ Abs(c.etaBachFromCharmBaryon) <= conf.etaTrackCharmBachMax
    /\ c.xDecayVtxCascade * c.xDecayVtxCascade
            + c.yDecayVtxCascade * c.yDecayVtxCascade
         >= conf.radiusCascMin * conf.radiusCascMin
    /\ c.xDecayVtxV0 * c.xDecayVtxV0 + c.yDecayVtxV0 * c.yDecayVtxV0
         >= conf.radiusV0Min * conf.radiusV0Min
    /\ c.cosPACasc >= conf.cosPACascMin
    /\ c.cosPAV0 >= conf.cosPAV0Min
    /\ c.dcaCascDau <= conf.dcaCascDauMax
    /\ c.dcaV0Dau <= conf.dcaV0DauMax
    /\ c.dcaCharmBaryonDau <= conf.dcaCharmBaryonDauMax
    /\ Abs(c.dcaXYToPvV0Dau0) >= conf.dcaPosToPvMin
    /\ Abs(c.dcaXYToPvV0Dau1) >= conf.dcaNegToPvMin
    /\ Abs(c.dcaXYToPvCascDau) >= conf.dcaBachToPvMin
    /\ Abs(c.impactParBachFromCharmBaryonXY)
            >= conf.impactParameterXYPiFromCharmBaryonMin
    /\ Abs(c.impactParBachFromCharmBaryonXY)
            <= conf.impactParameterXYPiFromCharmBaryonMax
    /\ Abs(c.impactParBachFromCharmBaryonZ)
            >= conf.impactParameterZPiFromCharmBaryonMin
    /\ Abs(c.impactParBachFromCharmBaryonZ)
            <= conf.impactParameterZPiFromCharmBaryonMax
    /\ Abs(c.impactParCascXY) >= conf.impactParameterXYCascMin
    /\ Abs(c.impactParCascXY) <= conf.impactParameterXYCascMax
    /\ Abs(c.impactParCascZ) >= conf.impactParameterZCascMin
    /\ Abs(c.impactParCascZ) <= conf.impactParameterZCascMax
    /\ c.pxBachFromCasc * c.pxBachFromCasc
            + c.pyBachFromCasc * c.pyBachFromCasc
         >= conf.ptPiFromCascMin * conf.ptPiFromCascMin
    /\ c.pxBachFromCharmBaryon * c.pxBachFromCharmBaryon
            + c.pyBachFromCharmBaryon * c.pyBachFromCharmBaryon
         >= conf.ptPiFromCharmBaryonMin * conf.ptPiFromCharmBaryonMin
    /\ conf.applyTrkSelLf =>
            /\ lfTracks[c.posTrackId].tpcQuality
            /\ lfTracks[c.negTrackId].tpcQuality
            /\ lfTracks[c.bachelorId].tpcQuality
    /\ tracks[c.bachelorFromCharmBaryonId].tpcQuality
    /\ tracks[c.bachelorFromCharmBaryonId].itsQuality
    /\ tracks[c.bachelorFromCharmBaryonId].itsNClsInnerBarrel
            >= conf.nClustersItsInnBarrMin

\* C3: for every candidate the emitted resultSelections is the conjunction
\* of all topological, kinematic and quality predicates, each with an
\* inclusive threshold (the light-flavour TPC quality only under
\* applyTrkSelLf): it is false exactly when at least one predicate fails.
C3_ResultIsConjunction ==
    \A i \in DOMAIN hfSelToXiPi :
        hfSelToXiPi[i].resultSelections = AllCutsHold(candidates[i], cfg)

\* C3 witness: a candidate with a column exactly on its threshold (cosPA of
\* the cascade at its minimum) was written with resultSelections true
C3_Witness ==
    \E i \in DOMAIN hfSelToXiPi :
        /\ candidates[i].cosPACasc = cfg.cosPACascMin
        /\ hfSelToXiPi[i].resultSelections

\* the columns that are inputs of the topological and kinematic cuts
CutColumns ==
    DOMAIN ColumnValues
        \ {"invMassLambda", "invMassCascade", "invMassCharmBaryon"}

\* candidates that differ from c in one cut column only
ColumnVariants(c) ==
    UNION { {[c EXCEPT ![f] = v] :
                v \in (ColumnValues[f] \cup {BaseCandidate[f]}) \ {c[f]}} :
            f \in CutColumns }

\* the row of lfTracks / tracks that differs from row id in TPC quality only
otherTpcQuality(id) == IF id % 2 = 1 THEN id - 1 ELSE id + 1

\* the rows of tracks that differ from row id in ITS quality or in the
\* number of inner-barrel clusters only
otherItsQuality(id) ==
    { IF (id \div 32) % 2 = 1 THEN id - 32 ELSE id + 32,
      (id % 64) + 64 * (((id \div 64) + 1) % 3),
      (id % 64) + 64 * (((id \div 64) + 2) % 3) }

\* candidates that differ from c in the quality of one track only: same PID
\* answers, same detector presence, same nSigma values
QualityVariants(c) ==
    { [c EXCEPT !.posTrackId = otherTpcQuality(@)],
      [c EXCEPT !.negTrackId = otherTpcQuality(@)],
      [c EXCEPT !.bachelorId = otherTpcQuality(@)],
      [c EXCEPT !.bachelorFromCharmBaryonId = otherTpcQuality(@)] }
    \cup { [c EXCEPT !.bachelorFromCharmBaryonId = t] :
              t \in otherItsQuality(c.bachelorFromCharmBaryonId) }

CutVariants(c) == ColumnVariants(c) \cup QualityVariants(c)

\* the <<histogram, bin>> pairs of the registry that hold an entry
filled(reg) ==
    UNION { {<<h, b>> : b \in {k \in DOMAIN reg[h] : reg[h][k] > 0}} :
            h \in DOMAIN reg }

\* the fills of f that go to the histograms of hs
fillsIn(f, hs) == {p \in f : p[1] \in hs}

\* the cuts applied under conf that candidate c fails
failedCuts(c, conf) ==
    { h \in {cutsInOrder(conf)[k] : k \in DOMAIN cutsInOrder(conf)} :
        cutFails(h, c, conf) }

\* the cuts that come out differently for failed-cut sets a and b
flipped(a, b) == (a \ b) \cup (b \ a)

\* C4 as stated: for two candidates that differ only in the input of one
\* cut, so that exactly that cut flips, processing them differs in that
\* cut's histogram only: every other histogram of the registry receives the
\* same fills from both.
C4_OnlyOwnTallyChanges ==
    (pc = "done" /\ Len(hfSelToXiPi) = 1) =>
        LET mine == filled(registry)
            failed == failedCuts(candidates[1], cfg)
        IN  \A d \in CutVariants(candidates[1]) :
                LET own == flipped(failed, failedCuts(d, cfg))
                IN  (Cardinality(own) = 1) =>
                        mine \ fillsIn(mine, own)
                            = LET f == iteration(d, cfg).fills
                              IN  f \ fillsIn(f, own)

\* C4 as amended: for two such candidates the histogram of the flipped cut
\* differs; every other hSel<cut> and hSelMass<X> histogram receives the
\* same fills from both, and the two rows agree in every column but
\* resultSelections; hStatusCheck, hSelPID and hInvMassCharmBaryon, which are
\* filled under resultSelections, differ only if resultSelections differs.
C4_OnlyOwnCutTallyChanges ==
    (pc = "done" /\ Len(hfSelToXiPi) = 1) =>
        LET mine == filled(registry)
            failed == failedCuts(candidates[1], cfg)
        IN  \A d \in CutVariants(candidates[1]) :
                LET own == flipped(failed, failedCuts(d, cfg))
                    it == iteration(d, cfg)
                IN  (Cardinality(own) = 1) =>
                        /\ fillsIn(mine, own) # fillsIn(it.fills, own)
                        /\ fillsIn(mine, histsSel \ own)
                                = fillsIn(it.fills, histsSel \ own)
                        /\ [it.row EXCEPT !.resultSelections =
                                    hfSelToXiPi[1].resultSelections]
                                = hfSelToXiPi[1]
                        /\ (it.row.resultSelections
                                = hfSelToXiPi[1].resultSelections)
                            => /\ fillsIn(mine, hists12)
                                    = fillsIn(it.fills, hists12)
                               /\ passesAll(it.row)
                                    = (hInvMassCharmBaryon # EmptyBag)

\* C4 witness: a candidate failing one cut only has been processed, and a
\* candidate differing from it in that cut's input alone passes them all
C4_Witness ==
    /\ pc = "done"
    /\ Len(hfSelToXiPi) = 1
    /\ ~hfSelToXiPi[1].resultSelections
    /\ \E d \in CutVariants(candidates[1]) :
            /\ Cardinality(failedCuts(candidates[1], cfg)) = 1
            /\ failedCuts(d, cfg) = {}

\* C5: the Lambda and Xi mass flags are true exactly for a mass strictly
\* inside (reference - window, reference + window): a mass at either end is
\* rejected, and masses equally far above and below the reference get the
\* same flag.
C5_MassWindowsStrict ==
    \A i \in DOMAIN hfSelToXiPi :
        /\ hfSelToXiPi[i].statusInvMassLambda
            = ( /\ candidates[i].invMassLambda
                        > massLambdaFromPDG - cfg.v0MassWindow
                /\ candidates[i].invMassLambda
                        < massLambdaFromPDG + cfg.v0MassWindow )
        /\ hfSelToXiPi[i].statusInvMassCascade
            = ( /\ candidates[i].invMassCascade
                        > massXiFromPDG - cfg.cascadeMassWindow
                /\ candidates[i].invMassCascade
                        < massXiFromPDG + cfg.cascadeMassWindow )

\* C5 witness: a candidate whose Lambda mass is exactly reference + window
\* was written with statusInvMassLambda false
C5_Witness ==
    \E i \in DOMAIN hfSelToXiPi :
        /\ candidates[i].invMassLambda = massLambdaFromPDG + cfg.v0MassWindow
        /\ ~hfSelToXiPi[i].statusInvMassLambda

\* C6: the charm-baryon mass flag is true exactly for a mass in the closed
\* interval [invMassCharmBaryonMin, invMassCharmBaryonMax].
C6_CharmMassClosedInterval ==
    \A i \in DOMAIN hfSelToXiPi :
        hfSelToXiPi[i].statusInvMassCharmBaryon
            = ( /\ cfg.invMassCharmBaryonMin
                        <= candidates[i].invMassCharmBaryon
                /\ candidates[i].invMassCharmBaryon
                        <= cfg.invMassCharmBaryonMax )

\* C6 witness: a candidate whose charm-baryon mass equals the upper limit
\* was written with statusInvMassCharmBaryon true
C6_Witness ==
    \E i \in DOMAIN hfSelToXiPi :
        /\ candidates[i].invMassCharmBaryon = cfg.invMassCharmBaryonMax
        /\ hfSelToXiPi[i].statusInvMassCharmBaryon

\* C7: the PID flags, the mass flags, the presence bitmasks and the nSigma
\* columns of a row do not depend on the cuts: a candidate with the same PID
\* answers, detector presence, nSigma values and masses, and other cut
\* inputs, gets a row that differs in resultSelections at most.
C7_RowIndependentOfCuts ==
    (pc = "done" /\ Len(hfSelToXiPi) = 1) =>
        \A d \in CutVariants(candidates[1]) :
            [iteration(d, cfg).row EXCEPT
                !.resultSelections = hfSelToXiPi[1].resultSelections]
                = hfSelToXiPi[1]

\* C7 witness: a candidate failing the cuts was written with all PID and
\* mass flags true, and a candidate differing in a cut input only passes
C7_Witness ==
    /\ pc = "done"
    /\ Len(hfSelToXiPi) = 1
    /\ ~hfSelToXiPi[1].resultSelections
    /\ hfSelToXiPi[1].statusPidCharmBaryon
    /\ hfSelToXiPi[1].statusInvMassLambda
    /\ hfSelToXiPi[1].statusInvMassCascade
    /\ hfSelToXiPi[1].statusInvMassCharmBaryon
    /\ \E d \in CutVariants(candidates[1]) :
            iteration(d, cfg).row.resultSelections

\* the answer of the configured PID mode for a track and a species
modeAnswer(track, species) ==
    IF cfg.usePidTpcOnly
    THEN (IF species = "Pr" THEN track.statusTpcPr ELSE track.statusTpcPi)
    ELSE (IF species = "Pr" THEN track.statusTpcOrTofPr
                            ELSE track.statusTpcOrTofPi)

\* bit `role` of a presence bitmask
bitOf(info, role) == (info \div (2 ^ role)) % 2 = 1

\* the one entry a pass/fail histogram holds: in bin 1 if ok, else in bin 0
oneEntry(h, ok) ==
    /\ registry[h][1] = (IF ok THEN 1 ELSE 0)
    /\ registry[h][0] = (IF ok THEN 0 ELSE 1)

noEntry(h) == registry[h][0] = 0 /\ registry[h][1] = 0

\* C8: the pion and the proton from the Lambda are chosen by signDecay for
\* everything that follows: with signDecay > 0 the positive V0 daughter is
\* the pion and the negative the proton, with signDecay < 0 and with
\* signDecay = 0 the negative is the pion and the positive the proton; the
\* TPC-quality histograms, the Lambda PID flag, the presence bits and the
\* nSigma columns are those of the tracks so chosen; hSelSignDec gets bin 1
\* for signDecay > 0, bin 0 for signDecay < 0 and nothing for signDecay = 0.
C8_RolesFromSignDecay ==
    (Len(hfSelToXiPi) = 1) =>
        LET c == candidates[1]
            r == hfSelToXiPi[1]
            pi == lfTracks[IF c.signDecay > 0 THEN c.posTrackId
                                              ELSE c.negTrackId]
            pr == lfTracks[IF c.signDecay > 0 THEN c.negTrackId
                                              ELSE c.posTrackId]
        IN  /\ r.tpcNSigmaPiFromLambda = pi.tpcNSigmaPi
            /\ r.tofNSigmaPiFromLambda = pi.tofNSigmaPi
            /\ r.tpcNSigmaPrFromLambda = pr.tpcNSigmaPr
            /\ r.tofNSigmaPrFromLambda = pr.tofNSigmaPr
            /\ bitOf(r.infoTpcStored, PiFromLam) = pi.hasTPC
            /\ bitOf(r.infoTpcStored, PrFromLam) = pr.hasTPC
            /\ bitOf(r.infoTofStored, PiFromLam) = pi.hasTOF
            /\ bitOf(r.infoTofStored, PrFromLam) = pr.hasTOF
            /\ r.statusPidLambda
                    = ( /\ modeAnswer(pi, "Pi") = Accepted
                        /\ modeAnswer(pr, "Pr") = Accepted )
            /\ cfg.applyTrkSelLf =>
                    /\ oneEntry("hSelTPCQualityPiFromLam", pi.tpcQuality)
                    /\ oneEntry("hSelTPCQualityPrFromLam", pr.tpcQuality)
            /\ IF c.signDecay = 0 THEN noEntry("hSelSignDec")
                ELSE oneEntry("hSelSignDec", c.signDecay > 0)

\* C8 witness: a candidate with signDecay = 0 whose V0 daughters differ in
\* TPC presence, in quality and in their PID answers has been written
C8_Witness ==
    /\ Len(hfSelToXiPi) = 1
    /\ candidates[1].signDecay = 0
    /\ LET pos == lfTracks[candidates[1].posTrackId]
           neg == lfTracks[candidates[1].negTrackId]
       IN  /\ pos.hasTPC # neg.hasTPC
           /\ pos.tpcQuality # neg.tpcQuality
           /\ pos.statusTpcOrTofPr # neg.statusTpcOrTofPr
           /\ pos.statusTpcOrTofPi # neg.statusTpcOrTofPi

\* C9: at every point the output table holds one row per candidate whose
\* iteration has come to its end, the i-th row being that of the i-th
\* candidate; when process() returns the table has as many rows as there
\* are candidates, whatever their cut, PID and mass results.
C9_OneRowPerCandidateInOrder ==
    /\ Len(hfSelToXiPi) = idx - 1
    /\ Len(hfSelToXiPi) <= Len(candidates)
    /\ \A i \in DOMAIN hfSelToXiPi :
            hfSelToXiPi[i] = iteration(candidates[i], cfg).row
    /\ pc = "done" => Len(hfSelToXiPi) = Len(candidates)

\* C9 witness: process() has returned from a table of two candidates, the
\* first failing the cuts, with two different rows
C9_Witness ==
    /\ pc = "done"
    /\ Len(candidates) = 2
    /\ ~hfSelToXiPi[1].resultSelections
    /\ hfSelToXiPi[2].resultSelections
    /\ hfSelToXiPi[1] # hfSelToXiPi[2]

\* candidates that differ from c in the TPC quality of one or more of its
\* three light-flavour tracks only
LfQualityVariants(c) ==
    { [c EXCEPT
          !.posTrackId = IF b[1] THEN otherTpcQuality(@) ELSE @,
          !.negTrackId = IF b[2] THEN otherTpcQuality(@) ELSE @,
          !.bachelorId = IF b[3] THEN otherTpcQuality(@) ELSE @] :
        b \in [1..3 -> BOOLEAN] \ {[k \in 1..3 |-> FALSE]} }

\* C10: with applyTrkSelLf the TPC quality of each of the three
\* light-flavour tracks is tested (one entry in its histogram, and
\* resultSelections false when it is bad); without it their histograms stay
\* empty and their quality changes neither the row nor any fill.  The TPC
\* quality of the charm-baryon bachelor is tested for every candidate.
C10_LfQualityOnlyIfApplied ==
    (Len(hfSelToXiPi) = 1) =>
        LET c == candidates[1]
            r == hfSelToXiPi[1]
            lfOk == << trackPiFromLam(c).tpcQuality,
                       trackPrFromLam(c).tpcQuality,
                       lfTracks[c.bachelorId].tpcQuality >>
            charmOk == tracks[c.bachelorFromCharmBaryonId].tpcQuality
        IN  /\ oneEntry("hSelTPCQualityPiFromCharm", charmOk)
            /\ ~charmOk => ~r.resultSelections
            /\ IF cfg.applyTrkSelLf
               THEN /\ oneEntry("hSelTPCQualityPiFromLam", lfOk[1])
                    /\ oneEntry("hSelTPCQualityPrFromLam", lfOk[2])
                    /\ oneEntry("hSelTPCQualityPiFromCasc", lfOk[3])
                    /\ (\E k \in 1..3 : ~lfOk[k]) => ~r.resultSelections
               ELSE /\ noEntry("hSelTPCQualityPiFromLam")
                    /\ noEntry("hSelTPCQualityPrFromLam")
                    /\ noEntry("hSelTPCQualityPiFromCasc")
                    /\ \A d \in LfQualityVariants(c) :
                          LET it == iteration(d, cfg)
                          IN  it.row = r /\ it.fills = filled(registry)

\* C10 witness: without applyTrkSelLf a candidate with a light-flavour track
\* of bad TPC quality was written with resultSelections true
C10_Witness ==
    /\ Len(hfSelToXiPi) = 1
    /\ ~cfg.applyTrkSelLf
    /\ ~lfTracks[candidates[1].posTrackId].tpcQuality
    /\ hfSelToXiPi[1].resultSelections

\* the four tracks of candidate c by role, resolved from signDecay on the
\* track tables themselves
roleTracks(c) ==
    [ PiFromLam |-> lfTracks[IF c.signDecay > 0 THEN c.posTrackId
                                                 ELSE c.negTrackId],
      PrFromLam |-> lfTracks[IF c.signDecay > 0 THEN c.negTrackId
                                                 ELSE c.posTrackId],
      PiFromCasc |-> lfTracks[c.bachelorId],
      PiFromCharm |-> tracks[c.bachelorFromCharmBaryonId] ]

\* C11: in every row, whatever the PID verdicts and the cut results of the
\* candidate, bit 0 (pion from Lambda), bit 1 (proton from Lambda), bit 2
\* (pion from cascade) and bit 3 (pion from charm baryon) of infoTpcStored
\* are set exactly when that track has TPC, and those of infoTofStored
\* exactly when it has TOF; both masks are in 0..15.
C11_PresenceBitsFromDetectorsOnly ==
    \A i \in DOMAIN hfSelToXiPi :
        LET r == hfSelToXiPi[i]
            t == roleTracks(candidates[i])
        IN  /\ r.infoTpcStored \in 0..15
            /\ r.infoTofStored \in 0..15
            /\ bitOf(r.infoTpcStored, PiFromLam) = t.PiFromLam.hasTPC
            /\ bitOf(r.infoTpcStored, PrFromLam) = t.PrFromLam.hasTPC
            /\ bitOf(r.infoTpcStored, PiFromCasc) = t.PiFromCasc.hasTPC
            /\ bitOf(r.infoTpcStored, PiFromCharm) = t.PiFromCharm.hasTPC
            /\ bitOf(r.infoTofStored, PiFromLam) = t.PiFromLam.hasTOF
            /\ bitOf(r.infoTofStored, PrFromLam) = t.PrFromLam.hasTOF
            /\ bitOf(r.infoTofStored, PiFromCasc) = t.PiFromCasc.hasTOF
            /\ bitOf(r.infoTofStored, PiFromCharm) = t.PiFromCharm.hasTOF

\* C11 witness: a row was written for a candidate that fails the cuts and
\* the Lambda PID, one of whose tracks is rejected by the TPC-only selector
\* while having TPC, and whose TOF mask is neither 0 nor 15
C11_Witness ==
    \E i \in DOMAIN hfSelToXiPi :
        /\ ~hfSelToXiPi[i].resultSelections
        /\ ~hfSelToXiPi[i].statusPidLambda
        /\ \E role \in {"PiFromLam", "PiFromCasc", "PiFromCharm"} :
              /\ roleTracks(candidates[i])[role].hasTPC
              /\ roleTracks(candidates[i])[role].statusTpcPi = Rejected
        /\ hfSelToXiPi[i].infoTofStored \notin {0, 15}
        /\ hfSelToXiPi[i].infoTpcStored # hfSelToXiPi[i].infoTofStored

\* the seven flags of row r are all true
sevenFlags(r) ==
    /\ r.resultSelections
    /\ r.statusPidLambda /\ r.statusPidCascade /\ r.statusPidCharmBaryon
    /\ r.statusInvMassLambda /\ r.statusInvMassCascade
    /\ r.statusInvMassCharmBaryon

\* C12: hInvMassCharmBaryon holds one entry, the candidate's charm-baryon
\* mass, for each processed candidate whose seven flags are all true, and
\* none for any other: at every point its number of entries is the number of
\* processed candidates that passed every gate.
C12_MassHistogramIffAllGates ==
    /\ BagCardinality(hInvMassCharmBaryon)
          = Cardinality({i \in DOMAIN hfSelToXiPi :
                            sevenFlags(hfSelToXiPi[i])})
    /\ \A m \in {candidates[i].invMassCharmBaryon : i \in DOMAIN candidates} :
          CopiesIn(m, hInvMassCharmBaryon)
              = Cardinality({i \in DOMAIN hfSelToXiPi :
                                /\ sevenFlags(hfSelToXiPi[i])
                                /\ candidates[i].invMassCharmBaryon = m})

\* C12 witness: process() has returned from a table of two candidates, one
\* passing every gate and one failing nothing but the Lambda mass window,
\* and the histogram has one entry
C12_Witness ==
    /\ pc = "done"
    /\ Len(hfSelToXiPi) = 2
    /\ \E i, j \in 1..2 :
          /\ sevenFlags(hfSelToXiPi[i])
          /\ ~hfSelToXiPi[j].statusInvMassLambda
          /\ sevenFlags([hfSelToXiPi[j] EXCEPT !.statusInvMassLambda = TRUE])
    /\ BagCardinality(hInvMassCharmBaryon) = 1

\* the three light-flavour TPC-quality tallies, filled under applyTrkSelLf
lfQualityTallies ==
    { "hSelTPCQualityPiFromLam", "hSelTPCQualityPrFromLam",
      "hSelTPCQualityPiFromCasc" }

\* the pass/fail tallies every candidate is entered in
unconditionalTallies == (histsSel \ {"hSelSignDec"}) \ lfQualityTallies

\* the number of entries of pass/fail tally h
entries(h) == registry[h][0] + registry[h][1]

\* C13 as stated: a candidate that fails the topological flag, a PID level
\* or a mass window increments no per-predicate tally.
C13_TalliesOnlyForPassing ==
    (Len(hfSelToXiPi) = 1 /\ ~sevenFlags(hfSelToXiPi[1])) =>
        \A h \in histsSel : noEntry(h)

\* C13, amended: the per-predicate tallies are accumulated for every
\* processed candidate, whether or not it passes the gates: a candidate that
\* fails the topological flag, a PID level or a mass window has one entry in
\* every hSel<cut> and hSelMass<X> tally that is applied (the three
\* light-flavour TPC-quality tallies under applyTrkSelLf only), exactly as a
\* candidate that passes every gate; only hInvMassCharmBaryon is restricted
\* to candidates that pass every gate.
C13_TalliesForEveryCandidate ==
    (Len(hfSelToXiPi) = 1) =>
        /\ \A h \in unconditionalTallies : entries(h) = 1
        /\ \A h \in lfQualityTallies :
              entries(h) = (IF cfg.applyTrkSelLf THEN 1 ELSE 0)
        /\ hInvMassCharmBaryon # EmptyBag => sevenFlags(hfSelToXiPi[1])

\* C13 witness: a candidate failing the cuts, the Lambda PID and the Lambda
\* mass window was processed and sits in the fail bins of hSelRadCasc and
\* hSelMassLam
C13_Witness ==
    /\ Len(hfSelToXiPi) = 1
    /\ ~hfSelToXiPi[1].resultSelections
    /\ ~hfSelToXiPi[1].statusPidLambda
    /\ ~hfSelToXiPi[1].statusInvMassLambda
    /\ registry["hSelRadCasc"][0] = 1
    /\ registry["hSelMassLam"][0] = 1

\* what a run on each candidate of the table alone writes and fills
alone == [i \in DOMAIN candidates |-> iteration(candidates[i], cfg)]

\* C14: under a valid configuration the record written for a candidate is
\* the one a run on that candidate alone writes, whatever precedes it in
\* the table, and when process() returns every bin of every tally and
\* hInvMassCharmBaryon hold a count over the candidates of the table that
\* does not look at their positions; so every permutation of a table gives
\* each candidate the same record and the histograms the same final values.
C14_OrderIndependent ==
    LET its == alone @@ << >>   \* tabulated: each run is computed once
    IN  /\ \A i \in DOMAIN hfSelToXiPi : hfSelToXiPi[i] = its[i].row
        /\ pc = "done" =>
              /\ \A h \in DOMAIN registry : \A b \in DOMAIN registry[h] :
                    registry[h][b]
                      = Cardinality({i \in DOMAIN candidates :
                                        <<h, b>> \in its[i].fills})
              /\ \A m \in {candidates[i].invMassCharmBaryon :
                              i \in DOMAIN candidates} :
                    CopiesIn(m, hInvMassCharmBaryon)
                      = Cardinality(
                          {i \in DOMAIN candidates :
                              /\ candidates[i].invMassCharmBaryon = m
                              /\ sevenFlags(its[i].row)})
              /\ BagToSet(hInvMassCharmBaryon)
                    \subseteq {candidates[i].invMassCharmBaryon :
                                  i \in DOMAIN candidates}

\* C14 witness: process() has returned from a table of two different
\* candidates, the first failing the cuts and the second passing every gate
C14_Witness ==
    /\ pc = "done"
    /\ Len(candidates) = 2
    /\ candidates[1] # candidates[2]
    /\ ~hfSelToXiPi[1].resultSelections
    /\ sevenFlags(hfSelToXiPi[2])
    /\ BagCardinality(hInvMassCharmBaryon) = 1

\* the predicate behind unconditional tally h fails for candidate c
predicateFails(h, c) ==
    CASE h = "hSelMassLam" -> ~statusInvMassLambda(c, cfg)
      [] h = "hSelMassCasc" -> ~statusInvMassCascade(c, cfg)
      [] h = "hSelMassCharmBaryon" -> ~statusInvMassCharmBaryon(c, cfg)
      [] OTHER -> cutFails(h, c, cfg)

\* after k candidates every unconditional tally holds k entries
TalliesCountCandidates ==
    (pidConfigOk(cfg) /\ pc \in {"process", "done"}) =>
        \A h \in unconditionalTallies : entries(h) = idx - 1

\* a step decreases no bin, and a step that ends a candidate's iteration
\* adds one entry to each unconditional tally: to bin 0 when the predicate
\* fails, else to bin 1
TalliesStep ==
    (pc = "process") =>
        /\ \A h \in DOMAIN registry : \A b \in DOMAIN registry[h] :
              registry'[h][b] >= registry[h][b]
        /\ idx' = idx + 1 =>
              \A h \in unconditionalTallies :
                  LET b == IF predicateFails(h, candidates[idx]) THEN 0
                                                                 ELSE 1
                  IN  /\ registry'[h][b] = registry[h][b] + 1
                      /\ registry'[h][1 - b] = registry[h][1 - b]

\* C15: under a valid PID configuration, after k candidates every
\* unconditional pass/fail tally (every hSel histogram but hSelSignDec and
\* the three light-flavour TPC-quality tallies) has fail-bin count +
\* pass-bin count = k, each candidate adding one entry to exactly one of the
\* two bins (bin 0 when the predicate fails, bin 1 otherwise); no bin of any
\* histogram ever decreases.
C15_TalliesSumToCandidates ==
    []TalliesCountCandidates /\ [][TalliesStep]_vars

\* C15 witness: process() has returned from a table of two candidates with
\* one entry in each bin of hSelRadCasc and two in the pass bin of
\* hSelMassLam
C15_Witness ==
    /\ pc = "done"
    /\ idx = 3
    /\ registry["hSelRadCasc"][0] = 1
    /\ registry["hSelRadCasc"][1] = 1
    /\ registry["hSelMassLam"][1] = 2

\* C16: for every candidate written (so under a valid PID configuration)
\* the four verdicts come from one mode: with usePidTpcOnly each is the
\* TPC-only status of its track, else each is the TPC-or-TOF status; the
\* proton from the Lambda gets the proton selector's answer and the three
\* pions the pion selector's; no verdict is -999; and a PID flag of the row
\* is true only if every verdict it requires is Accepted.
C16_OneModeForAllTracks ==
    \A i \in DOMAIN hfSelToXiPi :
        LET r == hfSelToXiPi[i]
            t == roleTracks(candidates[i])
            s == statusPid(candidates[i], cfg)
        IN  /\ cfg.usePidTpcOnly # cfg.usePidTpcTofCombined
            /\ s.PrFromLam = modeAnswer(t.PrFromLam, "Pr")
            /\ s.PiFromLam = modeAnswer(t.PiFromLam, "Pi")
            /\ s.PiFromCasc = modeAnswer(t.PiFromCasc, "Pi")
            /\ s.PiFromCharmBaryon = modeAnswer(t.PiFromCharm, "Pi")
            /\ \A v \in DOMAIN s : s[v] # StatusUnset
            /\ r.statusPidLambda =>
                  s.PrFromLam = Accepted /\ s.PiFromLam = Accepted
            /\ r.statusPidCascade =>
                  /\ s.PrFromLam = Accepted /\ s.PiFromLam = Accepted
                  /\ s.PiFromCasc = Accepted
            /\ r.statusPidCharmBaryon =>
                  /\ s.PrFromLam = Accepted /\ s.PiFromLam = Accepted
                  /\ s.PiFromCasc = Accepted
                  /\ s.PiFromCharmBaryon = Accepted

\* C16 witness: in TPC-only mode a row was written for a candidate whose
\* pion from the charm baryon is rejected by TPC alone and accepted by TPC
\* or TOF, the cascade flag being true and the charm-baryon flag false
C16_Witness ==
    \E i \in DOMAIN hfSelToXiPi :
        /\ cfg.usePidTpcOnly
        /\ roleTracks(candidates[i]).PiFromCharm.statusTpcPi = Rejected
        /\ roleTracks(candidates[i]).PiFromCharm.statusTpcOrTofPi = Accepted
        /\ hfSelToXiPi[i].statusPidCascade
        /\ ~hfSelToXiPi[i].statusPidCharmBaryon

\* row r has come through selection k of hStatusCheck: the cuts and the
\* Lambda (0), cascade (1), charm-baryon (2) PID, then with all three the
\* Lambda (3), cascade (4) and charm-baryon (5) mass windows added in turn
reached(r, k) ==
    /\ r.resultSelections
    /\ r.statusPidLambda
    /\ k >= 1 => r.statusPidCascade
    /\ k >= 2 => r.statusPidCharmBaryon
    /\ k >= 3 => r.statusInvMassLambda
    /\ k >= 4 => r.statusInvMassCascade
    /\ k >= 5 => r.statusInvMassCharmBaryon

\* bin k of hStatusCheck counts the candidates that have come through
\* selection k; the bins never grow from left to right, and the last of the
\* six holds as many entries as hInvMassCharmBaryon
StatusCheckNested ==
    (pc # "constructed") =>
        /\ \A k \in 0..5 :
              registry["hStatusCheck"][k]
                = Cardinality({i \in DOMAIN hfSelToXiPi :
                                  reached(hfSelToXiPi[i], k)})
        /\ \A k \in 1..5 :
              registry["hStatusCheck"][k] <= registry["hStatusCheck"][k - 1]
        /\ registry["hStatusCheck"][5] = BagCardinality(hInvMassCharmBaryon)

\* a step that fills bin k (k = 1..5) of hStatusCheck fills bin k-1 too
StatusCheckStep ==
    (pc = "process") =>
        \A k \in 1..5 :
            registry'["hStatusCheck"][k] > registry["hStatusCheck"][k]
                => registry'["hStatusCheck"][k - 1]
                        > registry["hStatusCheck"][k - 1]

\* C17: hStatusCheck records consecutive selections: for every candidate a
\* fill of bin k (k = 1..5) happens only together with a fill of bin k-1,
\* so at every point count(bin 0) >= count(bin 1) >= ... >= count(bin 5),
\* and count(bin 5) is the number of entries of hInvMassCharmBaryon.
C17_StatusCheckConsecutive ==
    []StatusCheckNested /\ [][StatusCheckStep]_vars

\* C17 witness: process() has returned from a table of two candidates; two
\* entries in bin 0, fewer in bin 3, one in bin 5
C17_Witness ==
    /\ pc = "done"
    /\ registry["hStatusCheck"][0] = 2
    /\ registry["hStatusCheck"][2] = 2
    /\ registry["hStatusCheck"][3] = 1
    /\ registry["hStatusCheck"][5] = 1

\* the rows of SecVtx written for the pair of tracks of fitter call f
rowsOf(f) ==
    {k \in DOMAIN secvtx :
        /\ secvtx[k].index0 = tracksOfCollision[f.it_0].index
        /\ secvtx[k].index1 = tracksOfCollision[f.it_1].index}

\* the pairs handed to the fitter are pairs of an earlier and a later track
\* of the table, none handed twice; the rows written are those of the
\* vertex candidates the fitter returned, pair by pair; and when process()
\* returns every pair has been handed over
VertexerPairsOnce ==
    (vtxPc # "off") =>
        LET n == Len(tracksOfCollision)
        IN  /\ \A j \in DOMAIN dfCalls :
                  /\ dfCalls[j].it_0 \in 1..n
                  /\ dfCalls[j].it_1 \in 1..n
                  /\ dfCalls[j].it_0 < dfCalls[j].it_1
                  /\ \A k \in DOMAIN dfCalls :
                        ( /\ dfCalls[j].it_0 = dfCalls[k].it_0
                          /\ dfCalls[j].it_1 = dfCalls[k].it_1 ) => j = k
                  /\ Cardinality(rowsOf(dfCalls[j]))
                        = IF vtxPc = "vertex" /\ j = Len(dfCalls)
                          THEN ic ELSE dfCalls[j].nCand
            /\ \A k \in DOMAIN secvtx :
                  /\ secvtx[k].index0 < secvtx[k].index1
                  /\ secvtx[k].index2 = -1
                  /\ \E j \in DOMAIN dfCalls : k \in rowsOf(dfCalls[j])
            /\ vtxPc = "done" =>
                  /\ 2 * Len(dfCalls) = n * (n - 1)
                  /\ \A a, b \in 1..n :
                        a < b => \E j \in DOMAIN dfCalls :
                                    /\ dfCalls[j].it_0 = a
                                    /\ dfCalls[j].it_1 = b

\* C18: VertexerHFTask::process hands every unordered pair of distinct
\* tracks of the collision to the DCA fitter exactly once (n(n-1)/2 fits,
\* none for n < 2), the first track earlier in the table than the second,
\* never a track with itself; it writes one SecVtx row per vertex candidate
\* the fitter returns for the pair, with the two tracks' indices, index0
\* before index1, and index2 = -1; and it returns for every track table.
C18_EveryPairFittedOnce ==
    []VertexerPairsOnce /\ <>(vtxPc = "done")

\* C18 witness: process() has returned from a collision of three tracks
\* whose first index is not 0, after three fits of which one gave no
\* vertex candidate and one gave two
C18_Witness ==
    /\ vtxPc = "done"
    /\ Len(tracksOfCollision) = 3
    /\ tracksOfCollision[1].index # 0
    /\ Len(dfCalls) = 3
    /\ \E j, k \in DOMAIN dfCalls :
          dfCalls[j].nCand = 0 /\ dfCalls[k].nCand = 2
    /\ Len(secvtx) >= 2

====
